---- MODULE Spec2Model ----
(***************************************************************************)
(* Model of the MilCubes client: MilCubesSession, ProjectCollection and    *)
(* Project of src/MilCubes/api.py and the subcommands of                   *)
(* src/MilCubes/cli.py.                                                    *)
(*                                                                         *)
(* The client is synchronous and single-threaded, so every public          *)
(* operation is one action.  The platform is the environment: each action  *)
(* draws the HTTP responses (and file-system outcomes) it consumes from    *)
(* small sets.  `last` records the operation just executed: its arguments, *)
(* the requests it issued in order, the responses it consumed and how it   *)
(* ended (a returned value or a raised exception class).                   *)
(*                                                                         *)
(* Python values: a string that the code splits is a sequence of symbols;  *)
(* a dict and an object's attribute table are functions from names to      *)
(* values; a list-or-None field is a record [t, v] so that None and []     *)
(* stay distinct.                                                          *)
(***************************************************************************)
EXTENDS Integers, Sequences, FiniteSets, TLC

VARIABLES session, projects, bound, last

vars == <<session, projects, bound, last>>

\* ------------------------------------------------------------------ bounds

\* longest Location header value, in symbols
MaxLoc == 3
\* longest site-root page, in symbols
MaxPage == 2
\* largest project id the platform hands out
MaxId == 2
\* most projects in one listing
MaxProjects == 2

\* ------------------------------------------------------- exception classes

\* Python's class hierarchy for the exception classes the code raises or
\* catches; "BaseException" is the root.
ExcParent ==
  [ Exception           |-> "BaseException",
    MilCubesError       |-> "Exception",
    AuthenticationError |-> "MilCubesError",
    APIError            |-> "MilCubesError",
    ValueError          |-> "Exception",
    JSONDecodeError     |-> "ValueError",
    TypeError           |-> "Exception",
    KeyError            |-> "Exception",
    IndexError          |-> "Exception",
    AttributeError      |-> "Exception",
    OSError             |-> "Exception",
    FileNotFoundError   |-> "OSError",
    PermissionError     |-> "OSError",
    RequestException    |-> "OSError",
    ConnectionError     |-> "RequestException",
    HTTPError           |-> "RequestException" ]

RECURSIVE IsInstance(_, _)
\* `except cls` catches exc: exc is cls or one of its subclasses.
IsInstance(exc, cls) ==
  IF exc = cls THEN TRUE
  ELSE IF exc \notin DOMAIN ExcParent THEN FALSE
  ELSE IsInstance(ExcParent[exc], cls)

\* ------------------------------------------------------------ result values

NoValue == [t |-> "none", v |-> <<>>]

Return(v) == [kind |-> "return", exc |-> "", value |-> v]
Raise(e)  == [kind |-> "raise",  exc |-> e,  value |-> NoValue]

\* ----------------------------------------------------------------- strings

RECURSIVE Split(_, _)
\* str.split(sep) for a one-symbol separator: the segments between the
\* separators, in order (always at least one segment).
Split(s, sep) ==
  IF \A i \in 1..Len(s) : s[i] # sep THEN <<s>>
  ELSE LET i == CHOOSE k \in 1..Len(s) :
                   s[k] = sep /\ \A j \in 1..(k-1) : s[j] # sep
       IN <<SubSeq(s, 1, i-1)>> \o Split(SubSeq(s, i+1, Len(s)), sep)

Range(s) == {s[i] : i \in 1..Len(s)}

\* F applied to the value of v.
Let(v, F(_)) == CHOOSE y \in {F(x) : x \in {v}} : TRUE

\* All sequences over S of length at most n.
SeqsUpTo(S, n) == UNION { [1..k -> S] : k \in 0..n }

\* ----------------------------------------------------------------- session

DEFAULT_HEADERS == [UserAgent |-> <<"Mozilla">>]

NoSession == [constructed |-> FALSE, auth_token |-> <<>>, headers |-> DEFAULT_HEADERS]

Bearer(tok) == <<"Bearer", " ">> \o tok

\* MilCubesSession.__init__: `if auth_token:` is false for the empty string.
SessionInit(auth_token) ==
  [ constructed |-> TRUE,
    auth_token  |-> auth_token,
    headers     |-> IF auth_token # <<>>
                    THEN [UserAgent |-> DEFAULT_HEADERS.UserAgent,
                          Authorization |-> Bearer(auth_token)]
                    ELSE DEFAULT_HEADERS ]

\* -------------------------------------------------------------------- HTTP

NoId == -1

Req(method, endpoint, id) == [method |-> method, endpoint |-> endpoint, id |-> id]

\* The symbols of a Location header value: "=" and any other character.
LocSyms == {"t", "="}
Locations == SeqsUpTo(LocSyms, MaxLoc)

\* The answers to GET /login/admin: the transport fails, or a response comes
\* back with or without a Location header.
AuthResponses ==
  {[transport |-> "fail", hasLocation |-> FALSE, location |-> <<>>],
   [transport |-> "ok",   hasLocation |-> FALSE, location |-> <<>>]}
  \cup {[transport |-> "ok", hasLocation |-> TRUE, location |-> l] : l \in Locations}

\* response.headers['Location'].split('=')[1], then cls(auth_token, session).
TokenFromLocation(location) ==
  LET parts == Split(location, "=")
  IN IF Len(parts) < 2 THEN Raise("IndexError")
     ELSE Return(SessionInit(parts[2]))

\* MilCubesSession.from_cookies: every exception of the body, the
\* AuthenticationError it raises itself included, is re-raised as
\* AuthenticationError.
from_cookies(resp) ==
  LET body == IF resp.transport = "fail" THEN Raise("ConnectionError")
              ELSE IF ~resp.hasLocation THEN Raise("AuthenticationError")
              ELSE TokenFromLocation(resp.location)
  IN IF body.kind = "raise" /\ IsInstance(body.exc, "Exception")
     THEN Raise("AuthenticationError")
     ELSE body

\* The text handed to from_cookies_json: not JSON, a JSON value that is not
\* iterable, a list with an item lacking 'name' or 'value', or a list of
\* cookie objects.
CookieJsonKinds == {"notjson", "number", "baditem", "cookies"}

\* MilCubesSession.from_cookies_json
from_cookies_json(cookie_json, resp) ==
  LET body == CASE cookie_json = "notjson" -> Raise("JSONDecodeError")
                [] cookie_json = "number"  -> Raise("TypeError")
                [] cookie_json = "baditem" -> Raise("KeyError")
                [] OTHER                   -> from_cookies(resp)
  IN IF body.kind = "raise" /\ IsInstance(body.exc, "Exception")
     THEN Raise("AuthenticationError")
     ELSE body

\* The symbols of the site-root page: "M" is the marker
\* csrf-token" content=" , "E" is the closing "> , "c" any other text.
PageSyms == {"M", "c", "E"}
Pages == SeqsUpTo(PageSyms, MaxPage)

RootResponses ==
  {[transport |-> "fail", text |-> <<>>]}
  \cup {[transport |-> "ok", text |-> p] : p \in Pages}

LoginStatuses == {200, 302, 401}

LoginResponses ==
  {[transport |-> "fail", status |-> 0]}
  \cup {[transport |-> "ok", status |-> s] : s \in LoginStatuses}

\* Variant of from_username_password that goes on to the admin-auth request
\* whatever the status of the login response.
from_username_password_any_status(root, login, auth) ==
  LET getRoot  == Req("GET", "index", NoId)
      postLog  == Req("POST", "login", NoId)
      getAuth  == Req("GET", "login/admin", NoId)
      wrap(r)  == IF r.kind = "raise" /\ ~IsInstance(r.exc, "AuthenticationError")
                     /\ IsInstance(r.exc, "Exception")
                  THEN Raise("AuthenticationError") ELSE r
  IN IF root.transport = "fail"
     THEN [res |-> wrap(Raise("ConnectionError")), log |-> <<getRoot>>]
     ELSE IF \A i \in 1..Len(root.text) : root.text[i] # "M"
     THEN [res |-> wrap(Raise("AuthenticationError")), log |-> <<getRoot>>]
     ELSE IF login.transport = "fail"
     THEN [res |-> wrap(Raise("ConnectionError")), log |-> <<getRoot, postLog>>]
     ELSE IF auth.transport = "fail"
     THEN [res |-> wrap(Raise("ConnectionError")), log |-> <<getRoot, postLog, getAuth>>]
     ELSE IF ~auth.hasLocation
     THEN [res |-> wrap(Raise("AuthenticationError")), log |-> <<getRoot, postLog, getAuth>>]
     ELSE [res |-> wrap(TokenFromLocation(auth.location)),
           log |-> <<getRoot, postLog, getAuth>>]

\* MilCubesSession.from_username_password: the result and the requests
\* issued, in order.  AuthenticationError passes through; any other
\* exception is re-raised as AuthenticationError.
from_username_password(root, login, auth) ==
  LET getRoot  == Req("GET", "index", NoId)
      postLog  == Req("POST", "login", NoId)
      getAuth  == Req("GET", "login/admin", NoId)
      wrap(r)  == IF r.kind = "raise" /\ ~IsInstance(r.exc, "AuthenticationError")
                     /\ IsInstance(r.exc, "Exception")
                  THEN Raise("AuthenticationError") ELSE r
  IN IF root.transport = "fail"
     THEN [res |-> wrap(Raise("ConnectionError")), log |-> <<getRoot>>]
     ELSE IF \A i \in 1..Len(root.text) : root.text[i] # "M"
     THEN [res |-> wrap(Raise("AuthenticationError")), log |-> <<getRoot>>]
     ELSE IF login.transport = "fail"
     THEN [res |-> wrap(Raise("ConnectionError")), log |-> <<getRoot, postLog>>]
     ELSE IF login.status # 302
     THEN [res |-> wrap(Raise("AuthenticationError")), log |-> <<getRoot, postLog>>]
     ELSE IF auth.transport = "fail"
     THEN [res |-> wrap(Raise("ConnectionError")), log |-> <<getRoot, postLog, getAuth>>]
     ELSE IF ~auth.hasLocation
     THEN [res |-> wrap(Raise("AuthenticationError")), log |-> <<getRoot, postLog, getAuth>>]
     ELSE [res |-> wrap(TokenFromLocation(auth.location)),
           log |-> <<getRoot, postLog, getAuth>>]

\* ---------------------------------------------------------------- projects

NoneV == [t |-> "none", v |-> <<>>]
ListV(s) == [t |-> "list", v |-> s]

RequiredFields == {"id", "group_id", "episode_id", "title", "cover", "content"}
ListFields == {"books", "books_file_ids", "images", "images_file_ids",
               "videos", "videos_file_ids"}
KnownFields == RequiredFields \cup ListFields

\* Python's `x or []` for a list-or-None x: None and the empty list are falsy.
OrEmptyList(x) == IF x.t = "none" \/ x.v = <<>> THEN ListV(<<>>) ELSE x

\* Project.__init__(**d): the attribute table of the new object.  The six
\* list parameters default to None and are stored as `x or []`; every other
\* key of d is kept as an attribute.
ProjectInit(d) ==
  [k \in (DOMAIN d) \cup ListFields |->
     IF k \in ListFields
     THEN OrEmptyList(IF k \in DOMAIN d THEN d[k] ELSE NoneV)
     ELSE d[k]]

\* Project.from_dict: cls(**data); a missing required parameter is a
\* TypeError.
from_dict(d) ==
  IF RequiredFields \subseteq DOMAIN d THEN Return(ProjectInit(d))
  ELSE Raise("TypeError")

\* Variant of to_dict with a copy-paste slip in the last entry.
to_dict_slip(p) ==
  [k \in KnownFields |-> IF k = "videos_file_ids" THEN p["videos"] ELSE p[k]]

\* Project.to_dict: the twelve known attributes.
to_dict(p) == [k \in KnownFields |-> p[k]]

Ids == 1..MaxId
Titles == {"A", "B"}

\* A project as the platform serialises it, without and with an extension
\* field.
ServerDict(id, title, content) ==
  [k \in KnownFields |->
     CASE k = "id"      -> id
       [] k = "title"   -> title
       [] k = "content" -> content
       [] k = "cover"   -> "cover"
       [] k \in {"group_id", "episode_id"} -> 1
       [] OTHER         -> ListV(<<>>)]

ServerDicts == {ServerDict(i, t, "c0") : i \in Ids, t \in Titles}

\* A response that carries only some of the fields.
PartialDict == [title |-> "B"]

\* ------------------------------------------------------------ API responses

\* JSON values under the 'data' key.
NullData == [t |-> "null", v |-> <<>>]
DictData(d) == [t |-> "dict", v |-> d]
ListData(s) == [t |-> "list", v |-> s]

\* Response bodies: text that is not JSON, the JSON values null and a
\* number, a JSON object without 'data', a JSON object with 'data'.
BadBodyKinds == {"notjson", "null", "number", "nodata"}
Body(kind, data) == [kind |-> kind, data |-> data]

TransportFailure == [transport |-> "fail", status |-> 0, body |-> Body("notjson", NullData)]

\* The platform's answers to an API call whose data, when it is sent, is
\* drawn from D: a transport failure, a 200 with every body, and a 500 with
\* a body that is not JSON or a well-formed envelope.
ApiResponses(D) ==
  {TransportFailure}
  \cup {[transport |-> "ok", status |-> 200, body |-> b] :
          b \in {Body(k, NullData) : k \in BadBodyKinds} \cup {Body("data", x) : x \in D}}
  \cup {[transport |-> "ok", status |-> st, body |-> b] :
          st \in {500},
          b \in {Body("notjson", NullData), Body("data", CHOOSE x \in D : x # NullData)}}

\* Variant of raise_for_status that lets server errors through.
raise_for_status_4xx(status) == status >= 400 /\ status < 500

\* requests.Response.raise_for_status: HTTPError for a 4xx or 5xx status.
raise_for_status(status) == status >= 400 /\ status < 600

\* The body of _make_request's try block, before its except clauses:
\* the call, raise_for_status, response.json(), `'data' in data`,
\* data['data'].
make_request_try(resp) ==
  IF resp.transport = "fail" THEN Raise("ConnectionError")
  ELSE IF raise_for_status(resp.status) THEN Raise("HTTPError")
  ELSE CASE resp.body.kind = "notjson"  -> Raise("JSONDecodeError")
         [] resp.body.kind = "null"     -> Raise("TypeError")
         [] resp.body.kind = "number"   -> Raise("TypeError")
         [] resp.body.kind = "nodata"   -> Raise("APIError")
         [] OTHER                       -> Return(resp.body.data)

\* Variant of _make_request that strips the Authorization header from the
\* session's own headers when the call fails.
make_request_strip(self, resp) ==
  LET r == make_request_try(resp)
  IN [res  |-> IF r.kind = "raise" /\ (IsInstance(r.exc, "RequestException")
                                       \/ IsInstance(r.exc, "JSONDecodeError"))
               THEN Raise("APIError") ELSE r,
      self |-> IF r.kind = "raise" THEN [self EXCEPT !.headers = DEFAULT_HEADERS]
               ELSE self]

\* MilCubesSession._make_request: RequestException and json.JSONDecodeError
\* become APIError; anything else passes.  `self` is the session after the
\* call.
make_request(self, resp) ==
  LET r == make_request_try(resp)
  IN [res  |-> IF r.kind = "raise" /\ (IsInstance(r.exc, "RequestException")
                                       \/ IsInstance(r.exc, "JSONDecodeError"))
               THEN Raise("APIError") ELSE r,
      self |-> self]

\* [Project.from_dict(item) for item in data]: the first failing item ends
\* the comprehension.
FromDictAll(items) ==
  LET rs == [i \in 1..Len(items) |-> from_dict(items[i])]
      bad == {i \in 1..Len(items) : rs[i].kind = "raise"}
  IN IF bad = {} THEN Return([i \in 1..Len(items) |-> rs[i].value])
     ELSE rs[CHOOSE i \in bad : \A j \in bad : i <= j]

\* MilCubesSession.get_projects: the collection's projects.
get_projects(self, resp) ==
  LET o == make_request(self, resp)
      r == o.res
  IN [res  |-> IF r.kind = "raise" THEN r
               ELSE IF r.value.t # "list" THEN Raise("TypeError")
               ELSE FromDictAll(r.value.v),
      self |-> o.self,
      log  |-> <<Req("GET", "project", NoId)>>]

\* MilCubesSession.get_project
get_project(self, project_id, resp) ==
  LET o == make_request(self, resp)
      r == o.res
  IN [res  |-> IF r.kind = "raise" THEN r
               ELSE IF r.value.t # "dict" THEN Raise("TypeError")
               ELSE from_dict(r.value.v),
      self |-> o.self,
      log  |-> <<Req("GET", "project", project_id)>>]

\* Project.upload: PUT of to_dict(); APIError is re-raised as APIError, the
\* response data is dropped.
upload(p, self, resp) ==
  LET o == make_request(self, resp)
      r == o.res
  IN [res  |-> IF r.kind = "raise" THEN r ELSE Return(NoneV),
      self |-> o.self,
      sent |-> to_dict(p),
      log  |-> <<Req("PUT", "project", p["id"])>>]

\* setattr(self, key, value) for every item of a dict.
SetAttrs(p, d) ==
  [k \in (DOMAIN p) \cup (DOMAIN d) |-> IF k \in DOMAIN d THEN d[k] ELSE p[k]]

\* Variant of update that drops the response instead of applying it.
update_discard(p, self, resp) ==
  LET o == make_request(self, resp)
      r == o.res
  IN [res  |-> IF r.kind = "raise" THEN r
               ELSE IF r.value.t # "dict" THEN Raise("AttributeError")
               ELSE Return(NoneV),
      p    |-> p,
      self |-> o.self,
      log  |-> <<Req("GET", "project", p["id"])>>]

\* Project.update: GET project/{id}, then setattr for every item of the
\* response data; data without .items() is an AttributeError, which the
\* except clause does not catch.  `p` is the object after the call.
update(p, self, resp) ==
  LET o == make_request(self, resp)
      r == o.res
      ok == r.kind = "return" /\ r.value.t = "dict"
  IN [res  |-> IF r.kind = "raise" THEN r
               ELSE IF r.value.t # "dict" THEN Raise("AttributeError")
               ELSE Return(NoneV),
      p    |-> IF ok THEN SetAttrs(p, r.value.v) ELSE p,
      self |-> o.self,
      log  |-> <<Req("GET", "project", p["id"])>>]

\* -------------------------------------------------------------- file upload

Hosts == {<<"h1">>}
Dirs == {<<"d1">>, <<"d2">>}
FileIds == {42}

Signature(host, dir) ==
  [host |-> host, dir |-> dir, policy |-> "P", accessid |-> "AK", signature |-> "SIG"]

\* The data of GET file: null, an object without 'signature', an object
\* with one.
SigDatas ==
  {NullData, DictData(<<>>)}
  \cup {DictData([signature |-> Signature(h, d)]) : h \in Hosts, d \in Dirs}

\* The data of POST file: null, an object without 'id', an object with one.
RegDatas ==
  {NullData, DictData(<<>>)} \cup {DictData([id |-> n]) : n \in FileIds}

\* The object-storage host's answers; the call is session.post, not
\* _make_request, so only a transport failure raises.
StorageResponses ==
  {[transport |-> "fail", status |-> 0]}
  \cup {[transport |-> "ok", status |-> s] : s \in {200, 500}}

\* data[key] for the data of a response: a TypeError on null, a KeyError on
\* a missing key.
GetItem(data, key) ==
  IF data.t # "dict" THEN Raise("TypeError")
  ELSE IF key \notin DOMAIN data.v THEN Raise("KeyError")
  ELSE Return(data.v[key])

\* Variant of StorageRaises that also rejects a storage answer other than 200.
StorageRaises_status(stor) == stor.transport = "fail" \/ stor.status # 200

\* The try block around the storage POST: only a RequestException of the
\* transport raises; the response is not looked at.
StorageRaises(stor) == stor.transport = "fail"

\* MilCubesSession.upload_file: signature GET, storage POST, registration
\* POST.  `log` is the requests issued, in order.
upload_file(self, sig, stor, reg) ==
  LET getSig  == Req("GET", "file", NoId)
      postOss == Req("POST", "oss", NoId)
      postReg == Req("POST", "file", NoId)
      o1 == make_request(self, sig)
      signature == GetItem(o1.res.value, "signature")
      o2 == make_request(o1.self, reg)
      fid == GetItem(o2.res.value, "id")
  IN IF o1.res.kind = "raise"
     THEN [res |-> o1.res, self |-> o1.self, log |-> <<getSig>>]
     ELSE IF signature.kind = "raise"
     THEN [res |-> signature, self |-> o1.self, log |-> <<getSig>>]
     ELSE IF StorageRaises(stor)
     THEN [res |-> Raise("APIError"), self |-> o1.self, log |-> <<getSig, postOss>>]
     ELSE IF o2.res.kind = "raise"
     THEN [res |-> o2.res, self |-> o2.self, log |-> <<getSig, postOss, postReg>>]
     ELSE IF fid.kind = "raise"
     THEN [res |-> fid, self |-> o2.self, log |-> <<getSig, postOss, postReg>>]
     ELSE [res  |-> Return(<<signature.value.host \o signature.value.dir, fid.value>>),
           self |-> o2.self,
           log  |-> <<getSig, postOss, postReg>>]

\* How reading a local file ends.
ReadOutcomes == {"ok", "missing", "denied", "undecodable"}

\* The exception open()/read() raises for an outcome ("" for none);
\* "undecodable" is a UnicodeDecodeError, a ValueError, and only arises in
\* text mode.
ReadExc(outcome) ==
  CASE outcome = "missing"     -> "FileNotFoundError"
    [] outcome = "denied"      -> "PermissionError"
    [] outcome = "undecodable" -> "ValueError"
    [] OTHER                   -> ""

\* MilCubesSession.upload_file_by_path: the file is read in binary mode;
\* an IOError of the read or of upload_file becomes APIError.
upload_file_by_path(self, read, sig, stor, reg) ==
  LET o == upload_file(self, sig, stor, reg)
      wrap(r) == IF r.kind = "raise" /\ IsInstance(r.exc, "OSError")
                 THEN Raise("APIError") ELSE r
  IN IF read \in {"missing", "denied"}
     THEN [res |-> wrap(Raise(ReadExc(read))), self |-> self, log |-> <<>>]
     ELSE [res |-> wrap(o.res), self |-> o.self, log |-> o.log]

\* -------------------------------------------------------------- collections

\* The positions of the projects whose attribute `field` equals `key`.
Matches(ps, field, key) == {i \in 1..Len(ps) : ps[i][field] = key}

\* Variant of FirstMatch that keeps scanning to the last match.
LastMatch(m) == CHOOSE k \in m : \A j \in m : k >= j

\* `for project in self.projects`: the scan stops at the first match.
FirstMatch(m) == CHOOSE k \in m : \A j \in m : k <= j

\* The loop shared by find_by_id and find_by_title: the first project whose
\* `field` equals `key` is refreshed when the collection has a session and
\* returned; ValueError when the loop ends.  `ps` is the collection after
\* the call, `index` the position of the returned object.
FindBy(ps, hasSession, self, field, key, resp) ==
  LET m == Matches(ps, field, key)
      i == FirstMatch(m)
      refreshed(u) ==
        IF u.res.kind = "raise"
        THEN [res |-> u.res, index |-> 0, ps |-> [ps EXCEPT ![i] = u.p],
              self |-> u.self, log |-> u.log]
        ELSE [res |-> Return(u.p), index |-> i, ps |-> [ps EXCEPT ![i] = u.p],
              self |-> u.self, log |-> u.log]
  IN IF m = {}
     THEN [res |-> Raise("ValueError"), index |-> 0, ps |-> ps, self |-> self, log |-> <<>>]
     ELSE IF ~hasSession
     THEN [res |-> Return(ps[i]), index |-> i, ps |-> ps, self |-> self, log |-> <<>>]
     ELSE Let(update(ps[i], self, resp), refreshed)

\* ProjectCollection.find_by_id
find_by_id(ps, hasSession, self, project_id, resp) ==
  FindBy(ps, hasSession, self, "id", project_id, resp)

\* ProjectCollection.find_by_title
find_by_title(ps, hasSession, self, title, resp) ==
  FindBy(ps, hasSession, self, "title", title, resp)

\* --------------------------------------------------------- project files

\* Project.download_content: a failing open() or write() is re-raised as
\* IOError, that is OSError.
download_content(p, write) ==
  IF write = "ok" THEN Return([id |-> p["id"], title |-> p["title"], text |-> p["content"]])
  ELSE Raise("OSError")

\* Project.upload_from_file: the file is read in text mode into
\* self.content, then the project is uploaded.  An IOError of the body is
\* re-raised as a plain IOError (OSError); a decoding error and the errors
\* of upload pass.  `p` is the object after the call.
upload_from_file(p, self, read, put) ==
  LET q == [p EXCEPT !["content"] = "file"]
      o == upload(q, self, put)
      wrap(r) == IF r.kind = "raise" /\ IsInstance(r.exc, "OSError")
                 THEN Raise("OSError") ELSE r
  IN IF read # "ok"
     THEN [res |-> wrap(Raise(ReadExc(read))), p |-> p, self |-> self, log |-> <<>>]
     ELSE [res |-> wrap(o.res), p |-> q, self |-> o.self, log |-> o.log]

\* ---------------------------------------------------------------------- CLI

\* argparse's namespace for download and upload: exactly one selector of
\* the mutually exclusive group is given; the others are None or False.
\* `file` is the --file argument ("" when it is the empty string).
CliIds == 0..(MaxId + 1)
CliTitles == {"", "A", "Z"}
CliFiles == {"", "page.html"}

SelectorArgs ==
  {[sel |-> "id", id |-> i, title |-> "", file |-> f] : i \in CliIds, f \in CliFiles}
  \cup {[sel |-> "title", id |-> 0, title |-> t, file |-> f] : t \in CliTitles, f \in CliFiles}

DownloadArgs ==
  {a \in SelectorArgs : a.file = ""}
  \cup {[sel |-> "all", id |-> 0, title |-> "", file |-> ""]}

UploadArgs == SelectorArgs

\* Python truthiness of args.id, args.title, args.all and args.file.
ArgId(a)    == a.sel = "id" /\ a.id # 0
ArgTitle(a) == a.sel = "title" /\ a.title # ""
ArgAll(a)   == a.sel = "all"
ArgFile(a)  == a.file # ""

Cli(r, printed, log) == [res |-> r, printed |-> printed, log |-> log]

\* cli.list_projects: no try block.
list_projects(self, listing) ==
  LET body(o) ==
        IF o.res.kind = "raise" THEN Cli(o.res, <<>>, o.log)
        ELSE Cli(Return(NoneV),
                 <<"count">> \o [i \in 1..Len(o.res.value) |-> "item"], o.log)
  IN Let(get_projects(self, listing), body)

\* The try block shared by the --id and --title branches of
\* cli.download_project: only ValueError is caught.
DownloadOne(f, write) ==
  LET d == download_content(f.res.value, write)
  IN IF f.res.kind = "raise"
     THEN IF IsInstance(f.res.exc, "ValueError")
          THEN [res |-> Return(NoneV), printed |-> <<"error">>, log |-> f.log]
          ELSE [res |-> f.res, printed |-> <<>>, log |-> f.log]
     ELSE IF d.kind = "raise"
     THEN IF IsInstance(d.exc, "ValueError")
          THEN [res |-> Return(NoneV), printed |-> <<"downloading", "error">>, log |-> f.log]
          ELSE [res |-> d, printed |-> <<"downloading">>, log |-> f.log]
     ELSE [res |-> Return(NoneV), printed |-> <<"downloading", "saved">>, log |-> f.log]

\* cli.download_project
download_project(self, args, listing, refresh, write) ==
  LET body(o) ==
        LET ps == o.res.value
            one(f) == Cli(f.res, f.printed, o.log \o f.log)
            try(f) == Let(DownloadOne(f, write), one)
        IN IF o.res.kind = "raise" THEN Cli(o.res, <<>>, o.log)
           ELSE IF ArgId(args)
           THEN Let(find_by_id(ps, TRUE, o.self, args.id, refresh), try)
           ELSE IF ArgTitle(args)
           THEN Let(find_by_title(ps, TRUE, o.self, args.title, refresh), try)
           ELSE IF ArgAll(args)
           THEN IF ps # <<>> /\ write # "ok"
                THEN Cli(Raise("OSError"), <<"downloading_all">>, o.log)
                ELSE Cli(Return(NoneV), <<"downloading_all", "all_saved">>, o.log)
           ELSE Cli(Return(NoneV), <<>>, o.log)
  IN Let(get_projects(self, listing), body)

\* The try block shared by the two branches of cli.upload_project:
\* ValueError and FileNotFoundError are caught.
UploadOne(f, read, put) ==
  LET caught(e) == IsInstance(e, "ValueError") \/ IsInstance(e, "FileNotFoundError")
      msg(e) == IF IsInstance(e, "ValueError") THEN "error" ELSE "missing_file"
      body(u) ==
        IF u.res.kind = "raise"
        THEN IF caught(u.res.exc)
             THEN [res |-> Return(NoneV), printed |-> <<"uploading", msg(u.res.exc)>>,
                   log |-> f.log \o u.log]
             ELSE [res |-> u.res, printed |-> <<"uploading">>, log |-> f.log \o u.log]
        ELSE [res |-> Return(NoneV), printed |-> <<"uploading", "done">>,
              log |-> f.log \o u.log]
  IN IF f.res.kind = "raise"
     THEN IF caught(f.res.exc)
          THEN [res |-> Return(NoneV), printed |-> <<msg(f.res.exc)>>, log |-> f.log]
          ELSE [res |-> f.res, printed |-> <<>>, log |-> f.log]
     ELSE Let(upload_from_file(f.res.value, f.self, read, put), body)

\* cli.upload_project
upload_project(self, args, listing, refresh, read, put) ==
  LET body(o) ==
        LET ps == o.res.value
            one(f) == Cli(f.res, f.printed, o.log \o f.log)
            try(f) == Let(UploadOne(f, read, put), one)
        IN IF o.res.kind = "raise" THEN Cli(o.res, <<>>, o.log)
           ELSE IF ArgId(args) /\ ArgFile(args)
           THEN Let(find_by_id(ps, TRUE, o.self, args.id, refresh), try)
           ELSE IF ArgTitle(args) /\ ArgFile(args)
           THEN Let(find_by_title(ps, TRUE, o.self, args.title, refresh), try)
           ELSE Cli(Return(NoneV), <<>>, o.log)
  IN Let(get_projects(self, listing), body)

\* cli.upload_file: os.path.exists, then upload_file_by_path under
\* `except Exception`.
cli_upload_file(self, exists, read, sig, stor, reg) ==
  LET body(o) ==
        IF o.res.kind = "raise" /\ IsInstance(o.res.exc, "Exception")
        THEN Cli(Return(NoneV), <<"upload_failed">>, o.log)
        ELSE IF o.res.kind = "raise" THEN Cli(o.res, <<>>, o.log)
        ELSE Cli(Return(NoneV), <<"upload_ok", "url", "file_id">>, o.log)
  IN IF ~exists THEN Cli(Return(NoneV), <<"missing_file">>, <<>>)
     ELSE Let(upload_file_by_path(self, read, sig, stor, reg), body)

\* ------------------------------------------------------------------- state

Last(op, args, r, log, resps) ==
  [op |-> op, args |-> args, kind |-> r.kind, exc |-> r.exc, value |-> r.value,
   log |-> log, resps |-> resps]

NoLast == Last("none", <<>>, Return(NoValue), <<>>, <<>>)

\* The client before any login.
Init ==
  /\ session = NoSession
  /\ projects = <<>>
  /\ bound = FALSE
  /\ last = NoLast

\* A request that is never issued has no answer, so one stands for all.
NoAuthResponse == [transport |-> "fail", hasLocation |-> FALSE, location |-> <<>>]
NoLoginResponse == [transport |-> "fail", status |-> 0]

\* A construction that raises leaves the caller without a new session.
Constructed(r) == IF r.kind = "return" THEN r.value ELSE session

LoginOps == {"from_cookies", "from_cookies_json", "from_username_password"}

FromCookies ==
  \E resp \in AuthResponses :
    \E r \in {from_cookies(resp)} :
       /\ session' = Constructed(r)
       /\ last' = Last("from_cookies", <<>>, r,
                       <<Req("GET", "login/admin", NoId)>>, <<resp>>)
       /\ UNCHANGED <<projects, bound>>

FromCookiesJson ==
  \E cj \in CookieJsonKinds :
  \E resp \in IF cj = "cookies" THEN AuthResponses ELSE {NoAuthResponse} :
    \E r \in {from_cookies_json(cj, resp)}, issued \in {cj = "cookies"} :
       /\ session' = Constructed(r)
       /\ last' = Last("from_cookies_json", <<cj>>, r,
                       IF issued THEN <<Req("GET", "login/admin", NoId)>> ELSE <<>>,
                       IF issued THEN <<resp>> ELSE <<>>)
       /\ UNCHANGED <<projects, bound>>

FromUsernamePassword ==
  \E root \in RootResponses :
  \E login \in IF Len(from_username_password(root, NoLoginResponse, NoAuthResponse).log) >= 2
                THEN LoginResponses ELSE {NoLoginResponse} :
  \E auth \in IF Len(from_username_password(root, login, NoAuthResponse).log) >= 3
               THEN AuthResponses ELSE {NoAuthResponse} :
    \E o \in {from_username_password(root, login, auth)} :
       /\ session' = Constructed(o.res)
       /\ last' = Last("from_username_password", <<>>, o.res, o.log,
                       SubSeq(<<root, login, auth>>, 1, Len(o.log)))
       /\ UNCHANGED <<projects, bound>>

\* The data the platform may put in a project response.
ProjectDatas == {NullData} \cup {DictData(d) : d \in ServerDicts \cup {PartialDict}}

\* The data the platform may put in a listing response.
ListingDatas ==
  {NullData}
  \cup {ListData(<<PartialDict>>)}
  \cup {ListData(s) : s \in SeqsUpTo(ServerDicts, MaxProjects)}

ProjectResponses == ApiResponses(ProjectDatas)
ListingResponses == ApiResponses(ListingDatas)
SigResponses == ApiResponses(SigDatas)
RegResponses == ApiResponses(RegDatas)

Consumed(resps, log) == SubSeq(resps, 1, Len(log))

\* session._make_request('get', 'project/{id}')
MakeRequest ==
  /\ session.constructed
  /\ \E id \in Ids, resp \in ProjectResponses :
       \E o \in {make_request(session, resp)} :
          /\ session' = o.self
          /\ last' = Last("_make_request", <<id>>, o.res,
                          <<Req("GET", "project", id)>>, <<resp>>)
          /\ UNCHANGED <<projects, bound>>

\* session.get_projects(), the caller dropping the collection after use (as
\* list_projects of the CLI does).
GetProjects ==
  /\ session.constructed
  /\ \E resp \in ListingResponses :
       \E o \in {get_projects(session, resp)} :
          /\ session' = o.self
          /\ last' = Last("get_projects", <<>>, o.res, o.log, <<resp>>)
          /\ UNCHANGED <<projects, bound>>

\* projects = session.get_projects(), by a caller that holds no projects
\* yet: the collection is assigned only when the call returns, and is bound
\* to the session.
KeepProjects ==
  /\ session.constructed
  /\ projects = <<>>
  /\ \E resp \in ListingResponses :
       \E o \in {get_projects(session, resp)} :
          /\ session' = o.self
          /\ projects' = IF o.res.kind = "return" THEN o.res.value ELSE projects
          /\ bound' = IF o.res.kind = "return" THEN TRUE ELSE bound
          /\ last' = Last("get_projects", <<>>, o.res, o.log, <<resp>>)

\* session.get_project(id)
GetProject ==
  /\ session.constructed
  /\ \E id \in Ids, resp \in ProjectResponses :
       \E o \in {get_project(session, id, resp)} :
          /\ session' = o.self
          /\ last' = Last("get_project", <<id>>, o.res, o.log, <<resp>>)
          /\ UNCHANGED <<projects, bound>>

\* projects[i].upload(session), also reached as session.upload_project.
ProjectUpload ==
  /\ session.constructed
  /\ \E i \in 1..Len(projects), resp \in ProjectResponses :
       \E o \in {upload(projects[i], session, resp)} :
          /\ session' = o.self
          /\ last' = Last("upload", [index |-> i, sent |-> o.sent], o.res, o.log, <<resp>>)
          /\ UNCHANGED <<projects, bound>>

\* The answers that matter to a call of upload_file: a request that is never
\* issued has no answer, so one stands for all.
StorageFor(sig) ==
  IF Len(upload_file(NoSession, sig, CHOOSE x \in StorageResponses : x.transport = "ok",
                     TransportFailure).log) >= 2
  THEN StorageResponses ELSE {CHOOSE x \in StorageResponses : x.transport = "fail"}

RegistrationFor(sig, stor) ==
  IF Len(upload_file(NoSession, sig, stor, TransportFailure).log) >= 3
  THEN RegResponses ELSE {TransportFailure}

\* session.upload_file(content, name, mime)
UploadFile ==
  /\ session.constructed
  /\ \E sig \in SigResponses :
     \E stor \in StorageFor(sig) :
     \E reg \in RegistrationFor(sig, stor) :
       \E o \in {upload_file(session, sig, stor, reg)} :
          /\ session' = o.self
          /\ last' = Last("upload_file", <<>>, o.res, o.log,
                          Consumed(<<sig, stor, reg>>, o.log))
          /\ UNCHANGED <<projects, bound>>

\* session.upload_file_by_path(path, mime)
UploadFileByPath ==
  /\ session.constructed
  /\ \E read \in {"ok", "missing", "denied"} :
     \E sig \in IF read = "ok" THEN SigResponses ELSE {TransportFailure} :
     \E stor \in StorageFor(sig) :
     \E reg \in RegistrationFor(sig, stor) :
       \E o \in {upload_file_by_path(session, read, sig, stor, reg)} :
          /\ session' = o.self
          /\ last' = Last("upload_file_by_path", <<read>>, o.res, o.log,
                          Consumed(<<sig, stor, reg>>, o.log))
          /\ UNCHANGED <<projects, bound>>

\* ProjectCollection(projects), by a caller that holds no projects yet: a
\* collection without a session, of projects built with Project.from_dict.
NewCollection ==
  \E s \in SeqsUpTo(ServerDicts, MaxProjects) :
    \E r \in {FromDictAll(s)} :
       /\ projects = <<>>
       /\ r.kind = "return"
       /\ projects' = r.value
       /\ bound' = FALSE
       /\ last' = Last("ProjectCollection", <<>>, r, <<>>, <<>>)
       /\ UNCHANGED session

FindKeys == 0..(MaxId + 1)
FindTitles == Titles \cup {"Z"}

FindResult(o) ==
  IF o.res.kind = "return"
  THEN Return([index |-> o.index, project |-> o.res.value])
  ELSE o.res

FindArgs(key) == [key |-> key, pre |-> projects, bound |-> bound]

\* The answers that matter to a lookup: no refresh request, no answer.
RefreshFor(field, key) ==
  IF bound /\ Matches(projects, field, key) # {}
  THEN ProjectResponses ELSE {TransportFailure}

\* projects.find_by_id(key)
FindById ==
  /\ bound => session.constructed
  /\ \E key \in FindKeys :
     \E resp \in RefreshFor("id", key) :
       \E o \in {find_by_id(projects, bound, session, key, resp)} :
          /\ session' = o.self
          /\ projects' = o.ps
          /\ last' = Last("find_by_id", FindArgs(key), FindResult(o), o.log,
                          Consumed(<<resp>>, o.log))
          /\ UNCHANGED bound

\* projects.find_by_title(title)
FindByTitle ==
  /\ bound => session.constructed
  /\ \E title \in FindTitles :
     \E resp \in RefreshFor("title", title) :
       \E o \in {find_by_title(projects, bound, session, title, resp)} :
          /\ session' = o.self
          /\ projects' = o.ps
          /\ last' = Last("find_by_title", FindArgs(title), FindResult(o), o.log,
                          Consumed(<<resp>>, o.log))
          /\ UNCHANGED bound

\* projects[i].update(session), also reached as session.update_project.
ProjectUpdate ==
  /\ session.constructed
  /\ \E i \in 1..Len(projects), resp \in ProjectResponses :
       \E o \in {update(projects[i], session, resp)} :
          /\ session' = o.self
          /\ projects' = [projects EXCEPT ![i] = o.p]
          /\ last' = Last("update", [index |-> i, pre |-> projects[i]], o.res, o.log,
                          <<resp>>)
          /\ UNCHANGED bound

\* One run of the command line tool executes one subcommand: the
\* subcommand actions start from a fresh login.
CliLast(op, args, o, resps) ==
  [op |-> op, args |-> args, kind |-> o.res.kind, exc |-> o.res.exc,
   value |-> o.printed, log |-> o.log, resps |-> resps]

\* milcubes list
ListProjects ==
  /\ session.constructed /\ last.op = "none"
  /\ \E listing \in ListingResponses :
       \E o \in {list_projects(session, listing)} :
       /\ last' = CliLast("cli.list", <<>>, o, <<listing>>)
       /\ UNCHANGED <<session, projects, bound>>

\* milcubes download {--id N | --title T | --all}
DownloadProject ==
  /\ session.constructed /\ last.op = "none"
  /\ \E args \in DownloadArgs, listing \in ListingResponses :
     \E refresh \in IF Len(download_project(session, args, listing,
                                            TransportFailure, "ok").log) >= 2
                    THEN ProjectResponses ELSE {TransportFailure} :
     \E write \in IF download_project(session, args, listing, refresh, "ok").printed
                       \in {<<"downloading", "saved">>, <<"downloading_all", "all_saved">>}
                  THEN {"ok", "fail"} ELSE {"ok"} :
       \E o \in {download_project(session, args, listing, refresh, write)} :
       /\ last' = CliLast("cli.download", args, o, <<listing, refresh, write>>)
       /\ UNCHANGED <<session, projects, bound>>

\* milcubes upload {--id N | --title T} --file F
UploadProject ==
  /\ session.constructed /\ last.op = "none"
  /\ \E args \in UploadArgs, listing \in ListingResponses :
     \E refresh \in IF Len(upload_project(session, args, listing, TransportFailure,
                                          "missing", TransportFailure).log) >= 2
                    THEN ProjectResponses ELSE {TransportFailure} :
     \E read \in IF "uploading" \in Range(upload_project(session, args, listing, refresh,
                                                         "missing", TransportFailure).printed)
                 THEN ReadOutcomes ELSE {"ok"} :
     \E put \in IF read = "ok" /\ "uploading" \in
                     Range(upload_project(session, args, listing, refresh,
                                          "missing", TransportFailure).printed)
                THEN ProjectResponses ELSE {TransportFailure} :
       \E o \in {upload_project(session, args, listing, refresh, read, put)} :
       /\ last' = CliLast("cli.upload", args, o, <<listing, refresh, read, put>>)
       /\ UNCHANGED <<session, projects, bound>>

\* milcubes file --file F [--mime M]
UploadFileCmd ==
  /\ session.constructed /\ last.op = "none"
  /\ \E exists \in BOOLEAN :
     \E read \in IF exists THEN {"ok", "missing", "denied"} ELSE {"missing"} :
     \E sig \in IF exists /\ read = "ok" THEN SigResponses ELSE {TransportFailure} :
     \E stor \in StorageFor(sig) :
     \E reg \in RegistrationFor(sig, stor) :
       \E o \in {cli_upload_file(session, exists, read, sig, stor, reg)} :
       /\ last' = CliLast("cli.file", <<exists>>, o, <<read, sig, stor, reg>>)
       /\ UNCHANGED <<session, projects, bound>>

\* The values of a list field in a dict handed to Project.from_dict.
ListVals == {NoneV, ListV(<<>>), ListV(<<"x">>)}

\* The dicts handed to Project.from_dict: the twelve known fields with
\* every combination of list values, without and with an extension key,
\* and dicts that lack a list field or a required field.
DictInputs ==
  LET full == {[k \in KnownFields |->
                  IF k \in ListFields THEN lf[k] ELSE ServerDict(i, "A", "c0")[k]] :
               i \in Ids, lf \in [ListFields -> ListVals]}
      ext(d) == [k \in (DOMAIN d) \cup {"status"} |-> IF k = "status" THEN "draft" ELSE d[k]]
      drop(d, key) == [k \in (DOMAIN d) \ {key} |-> d[k]]
      plain == ServerDict(1, "A", "c0")
  IN full \cup {ext(d) : d \in full} \cup {drop(plain, "books"), drop(plain, "id")}

\* A dict about to be handed to Project.from_dict.
InitDict ==
  /\ session = NoSession
  /\ projects = <<>>
  /\ bound = FALSE
  /\ last \in {Last("input", <<d>>, Return(NoValue), <<>>, <<>>) : d \in DictInputs}

\* p = Project.from_dict(d)
FromDict ==
  /\ last.op = "input"
  /\ \E r \in {from_dict(last.args[1])} :
       /\ projects' = IF r.kind = "return" THEN <<r.value>> ELSE <<>>
       /\ last' = Last("from_dict", last.args, r, <<>>, <<>>)
       /\ UNCHANGED <<session, bound>>

\* p.to_dict()
ToDict ==
  /\ last.op = "from_dict" /\ last.kind = "return"
  /\ last' = Last("to_dict", last.args, Return(to_dict(projects[1])), <<>>, <<>>)
  /\ UNCHANGED <<session, projects, bound>>

NextAuth == FromCookies \/ FromCookiesJson \/ FromUsernamePassword

SpecAuth == Init /\ [][NextAuth]_vars

\* A session just constructed by MilCubesSession(auth_token, session).
InitSession ==
  /\ session = SessionInit(<<"t">>)
  /\ projects = <<>>
  /\ bound = FALSE
  /\ last = NoLast

\* A session and the one-project collection it has listed.
InitListed ==
  /\ session = SessionInit(<<"t">>)
  /\ projects = <<ProjectInit(ServerDict(1, "A", "c0"))>>
  /\ bound = TRUE
  /\ last = NoLast

NextApi ==
  \/ MakeRequest
  \/ GetProjects
  \/ GetProject
  \/ ProjectUpload
  \/ ProjectUpdate
  \/ FindById
  \/ FindByTitle
  \/ UploadFile
  \/ UploadFileByPath

SpecApi == InitListed /\ [][NextApi]_vars

NextColl ==
  \/ KeepProjects
  \/ NewCollection
  \/ FindById
  \/ FindByTitle

SpecColl == InitSession /\ [][NextColl]_vars

NextCli ==
  \/ ListProjects
  \/ DownloadProject
  \/ UploadProject
  \/ UploadFileCmd

SpecCli == InitSession /\ [][NextCli]_vars

NextDict == FromDict \/ ToDict

SpecDict == InitDict /\ [][NextDict]_vars

\* ================================================================== claims

CliOps == {"cli.list", "cli.download", "cli.upload", "cli.file"}

\* The failures the command line tool is expected to meet: an API error, a
\* lookup that finds nothing, a file that is missing or cannot be read.
ExpectedFailures == {"APIError", "ValueError", "OSError", "FileNotFoundError",
                     "PermissionError"}

\* C1: no expected failure propagates out of a subcommand function: each
\* one returns, having printed a message.
C1_Contained ==
  last.op \in CliOps => ~(last.kind = "raise" /\ last.exc \in ExpectedFailures)

\* A response the platform gives when it answers 500.
Is500(resp) == resp.transport = "ok" /\ resp.status = 500

\* C2: when every request of get_projects, get_project, Project.upload or
\* upload_file is answered with status 500, the operation raises APIError.
C2_ServerErrorIsAPIError ==
  (/\ last.op \in {"get_projects", "get_project", "upload", "upload_file"}
   /\ \A i \in 1..Len(last.resps) : Is500(last.resps[i]))
  => last.kind = "raise" /\ last.exc = "APIError"

C2_Witness ==
  /\ last.op = "upload"
  /\ Is500(last.resps[1])
  /\ last.resps[1].body.kind = "data"
  /\ last.kind = "raise" /\ last.exc = "APIError"

\* C3: a session returned by from_cookies, from_cookies_json or
\* from_username_password has a non-empty auth_token and the header
\* Authorization: Bearer <token>.
C3_TokenOnSuccess ==
  (last.op \in LoginOps /\ last.kind = "return")
  => /\ session.auth_token # <<>>
     /\ "Authorization" \in DOMAIN session.headers
     /\ session.headers.Authorization = Bearer(session.auth_token)

UploadOrder == <<Req("GET", "file", NoId), Req("POST", "oss", NoId),
                 Req("POST", "file", NoId)>>

\* The signature response carries a data envelope.
HasEnvelope(resp) ==
  resp.transport = "ok" /\ ~raise_for_status(resp.status) /\ resp.body.kind = "data"

\* C4: upload_file issues signature GET, storage POST, registration POST in
\* that order, each at most once; the registration POST is issued only
\* after a signature response with a data envelope and a storage POST that
\* raised no transport exception, and then whatever the storage status; a
\* transport exception of the storage POST raises APIError without a
\* registration POST; a returned value is (host + dir, id).
C4_UploadFileOrder ==
  last.op = "upload_file" =>
    /\ last.log = SubSeq(UploadOrder, 1, Len(last.log))
    /\ Len(last.log) = 3 =>
         HasEnvelope(last.resps[1]) /\ last.resps[2].transport = "ok"
    /\ (/\ HasEnvelope(last.resps[1])
        /\ GetItem(last.resps[1].body.data, "signature").kind = "return"
        /\ last.resps[2].transport = "ok") => Len(last.log) = 3
    /\ (Len(last.log) >= 2 /\ last.resps[2].transport = "fail") =>
         /\ last.kind = "raise" /\ last.exc = "APIError"
         /\ Len(last.log) = 2
    /\ last.kind = "return" =>
         last.value = <<last.resps[1].body.data.v.signature.host
                          \o last.resps[1].body.data.v.signature.dir,
                        last.resps[3].body.data.v.id>>

C4_Witness ==
  /\ last.op = "upload_file"
  /\ last.kind = "return"
  /\ last.resps[2].status = 500
  /\ last.value = <<<<"h1", "d2">>, 42>>

FindOps == {"find_by_id", "find_by_title"}
FindField == [find_by_id |-> "id", find_by_title |-> "title"]

\* The positions that matched when the lookup recorded in `last` was called.
LastMatches ==
  {i \in 1..Len(last.args.pre) :
     last.args.pre[i][FindField[last.op]] = last.args.key}

\* The position of the first project, in collection order, that matched.
Earliest == CHOOSE i \in LastMatches : \A j \in LastMatches : i <= j

\* The refresh request of the lookup recorded in `last`, if one was issued,
\* was answered with a project or ended in APIError: the platform did not
\* send a malformed body.
PlainRefresh ==
  last.resps # <<>> =>
    LET r == make_request(session, last.resps[1]).res
    IN \/ r.kind = "raise" /\ r.exc = "APIError"
       \/ r.kind = "return" /\ r.value.t = "dict"

\* C5, as claimed: whenever a project matches, the lookup returns the first
\* match, with or without a bound session; without a match it raises
\* ValueError.  (Stated for well-formed platform answers.)
C5_AlwaysFirstMatch ==
  (last.op \in FindOps /\ PlainRefresh) =>
    /\ LastMatches # {} =>
         last.kind = "return" /\ last.value.index = Earliest
    /\ LastMatches = {} => last.kind = "raise" /\ last.exc = "ValueError"

\* C5, amended: without a match the lookup raises ValueError; with a match
\* and no session it returns the first match as stored; with a match and a
\* bound session it returns the first match, or raises the exception of
\* the refresh request (never ValueError) and returns nothing.
C5_FirstMatchOrRefreshError ==
  last.op \in FindOps =>
    /\ LastMatches = {} => last.kind = "raise" /\ last.exc = "ValueError"
    /\ (LastMatches # {} /\ ~last.args.bound) =>
         /\ last.kind = "return"
         /\ last.value.index = Earliest
         /\ last.value.project = last.args.pre[last.value.index]
    /\ (LastMatches # {} /\ last.args.bound) =>
         \/ last.kind = "return" /\ last.value.index = Earliest
         \/ /\ last.kind = "raise" /\ last.exc # "ValueError"
            /\ Len(last.log) = 1
            /\ make_request(session, last.resps[1]).res.kind = "raise"
               \/ make_request(session, last.resps[1]).res.value.t # "dict"

C5_Witness ==
  /\ last.op = "find_by_id"
  /\ Cardinality(LastMatches) = 2
  /\ last.args.pre[1]["title"] # last.args.pre[2]["title"]
  /\ last.args.bound
  /\ last.kind = "return" /\ last.value.index = 1

\* The dict handed to from_dict and the dict to_dict gave back.
RoundTripIn == last.args[1]
RoundTripOut == last.value

\* C6, as claimed: for a dict with the twelve known fields, list fields
\* possibly empty or null, and possibly extension keys, to_dict of from_dict
\* is the dict restricted to the known fields.
C6_RoundTrip ==
  (last.op = "to_dict" /\ KnownFields \subseteq DOMAIN RoundTripIn)
  => RoundTripOut = [k \in KnownFields |-> RoundTripIn[k]]

\* C6, amended: the round trip gives back every known field as it was,
\* except that a null list field comes back as the empty list.
C6_RoundTripNormalised ==
  (last.op = "to_dict" /\ KnownFields \subseteq DOMAIN RoundTripIn)
  => RoundTripOut =
       [k \in KnownFields |->
          IF k \in ListFields /\ RoundTripIn[k] = NoneV THEN ListV(<<>>)
          ELSE RoundTripIn[k]]

C6_Witness ==
  /\ last.op = "to_dict"
  /\ "status" \in DOMAIN RoundTripIn
  /\ RoundTripIn["books"] = NoneV
  /\ RoundTripIn["videos"] = ListV(<<"x">>)
  /\ RoundTripIn["videos_file_ids"] = ListV(<<>>)
  /\ RoundTripOut["books"] = ListV(<<>>)

\* C7: after a successful update every attribute of the project is the one
\* the response carries.
C7_FullOverwrite ==
  (last.op = "update" /\ last.kind = "return")
  => \A k \in DOMAIN projects[last.args.index] :
       /\ k \in DOMAIN last.resps[1].body.data.v
       /\ projects[last.args.index][k] = last.resps[1].body.data.v[k]

\* C8: no operation on a constructed session changes its auth_token or its
\* headers.
C8_TokenImmutable ==
  [][session.constructed =>
       /\ session'.auth_token = session.auth_token
       /\ session'.headers = session.headers]_vars

C8_Witness ==
  /\ last.op = "find_by_id"
  /\ last.kind = "raise" /\ last.exc = "APIError"
  /\ session.auth_token = <<"t">>
  /\ session.headers.Authorization = Bearer(<<"t">>)

\* C9: _make_request returns the value under 'data' or raises APIError.
C9_DataOrAPIError ==
  last.op = "_make_request" =>
    \/ /\ last.kind = "return"
       /\ last.resps[1].body.kind = "data"
       /\ last.value = last.resps[1].body.data
    \/ last.kind = "raise" /\ last.exc = "APIError"

\* The refresh recorded in `last` got a project back.
RefreshOk ==
  /\ make_request(session, last.resps[1]).res.kind = "return"
  /\ make_request(session, last.resps[1]).res.value.t = "dict"

\* C10: with a bound session a lookup that matches issues exactly one GET,
\* for the matched project, returns that project carrying the data of the
\* response and leaves the other projects alone, and raises when the
\* refresh fails; a lookup without a match, or on a collection without a
\* session, issues no request, and without a session returns the stored
\* project unchanged.
C10_RefreshOnMatch ==
  last.op \in FindOps =>
    /\ (last.args.bound /\ LastMatches # {}) =>
         /\ last.log = <<Req("GET", "project",
                             last.args.pre[Earliest]["id"])>>
         /\ last.kind = "return" <=> RefreshOk
         /\ last.kind = "return" =>
              /\ last.value.project = projects[last.value.index]
              /\ \A k \in DOMAIN last.resps[1].body.data.v :
                   last.value.project[k] = last.resps[1].body.data.v[k]
         /\ \A j \in 1..Len(projects) :
              j # Earliest => projects[j] = last.args.pre[j]
    /\ (~last.args.bound \/ LastMatches = {}) =>
         /\ last.log = <<>>
         /\ projects = last.args.pre
    /\ (~last.args.bound /\ LastMatches # {}) =>
         /\ last.kind = "return"
         /\ last.value.project = last.args.pre[Earliest]

C10_Witness ==
  /\ last.op = "find_by_title"
  /\ last.args.bound
  /\ Len(last.args.pre) = 2
  /\ last.kind = "return" /\ last.value.index = 2
  /\ last.args.pre[2]["title"] = "A"
  /\ last.value.project["title"] = "B"
  /\ projects[2]["title"] = "B"

LoginOrder == <<Req("GET", "index", NoId), Req("POST", "login", NoId),
                Req("GET", "login/admin", NoId)>>

\* The site-root response carries a page with the CSRF marker.
HasMarker(resp) ==
  resp.transport = "ok" /\ \E i \in 1..Len(resp.text) : resp.text[i] = "M"

\* The login recorded in `last` met one of the failures of the login path:
\* a request failed in transport, the root page lacks the CSRF marker, the
\* login response is not a 302, the admin-auth response has no Location.
LoginFailed ==
  \/ \E i \in 1..Len(last.resps) : last.resps[i].transport = "fail"
  \/ ~HasMarker(last.resps[1])
  \/ Len(last.resps) >= 2 /\ last.resps[2].status # 302
  \/ Len(last.resps) >= 3 /\ ~last.resps[3].hasLocation

\* C11: from_username_password issues GET site root, POST login, GET
\* admin-auth in that order; without the CSRF marker in the root page no
\* login POST is issued; after a login response other than 302 no
\* admin-auth GET is issued; a request is left out only after a failure;
\* and on a missing marker, a non-302 login, a missing Location header or
\* a transport failure the call raises AuthenticationError and returns no
\* session.
C11_LoginOrder ==
  last.op = "from_username_password" =>
    /\ Len(last.log) >= 1
    /\ last.log = SubSeq(LoginOrder, 1, Len(last.log))
    /\ Len(last.resps) = Len(last.log)
    /\ ~HasMarker(last.resps[1]) => Len(last.log) = 1
    /\ (Len(last.log) >= 2 /\ last.resps[2].status # 302) => Len(last.log) = 2
    /\ Len(last.log) < 3 => LoginFailed
    /\ LoginFailed =>
         /\ last.kind = "raise" /\ last.exc = "AuthenticationError"
         /\ last.value = NoValue

C11_Witness ==
  /\ last.op = "from_username_password"
  /\ HasMarker(last.resps[1])
  /\ Len(last.log) = 2
  /\ last.resps[2].transport = "ok" /\ last.resps[2].status = 401
  /\ last.kind = "raise" /\ last.exc = "AuthenticationError"
  /\ session = NoSession

\* What a subcommand prints first once find_by_id has been called: the
\* progress line of the download or upload, or the not-found error.
LookupMessages == {"downloading", "uploading", "error"}

\* C12: `download --id N` and `upload --id N --file F`, for every integer N
\* (0 included) and after a successful project listing, never return
\* silently: the subcommand either goes on to the download or upload of
\* the project found or prints the not-found error.
C12_IdNeverSilent ==
  (/\ last.op \in {"cli.download", "cli.upload"}
   /\ last.args.sel = "id"
   /\ last.op = "cli.upload" => last.args.file # ""
   /\ last.kind = "return")
  => /\ last.value # <<>>
     /\ last.value[1] \in LookupMessages

====
